---------------------------- MODULE Spec2Model ----------------------------
(***************************************************************************)
(* Model of the NiftiDicom2gif front end: the App component (upload,       *)
(* Load Preview, Convert, Clear), the ConversionOptions handlers and the   *)
(* InteractivePreview component (slice-range filter, reversal, canvas      *)
(* transforms, colormap).                                                  *)
(*                                                                         *)
(* The module holds several specifications over the same variables:        *)
(*   SpecFilter   InteractivePreview rendered with arbitrary slice-range   *)
(*                props (the filteredIndices memo as a pure function).     *)
(*   SpecPreview  the preview driven from the ConversionOptions controls   *)
(*                and the frame navigation buttons.                        *)
(*   SpecRender   drawFrame / applyColormap on a pixel grid.               *)
(*   SpecApp      the App request/response state machine.                  *)
(*   SpecFrameCount  the preview of a long series under a frame limit.     *)
(*   SpecPlayback the App with a preview that plays (animation loop).      *)
(*   SpecClient   a loaded preview under every client-side control.        *)
(*   SpecClearAll, SpecColormap, SpecLoop, SpecNavigate, SpecSliceRange     *)
(*                variants of these for single questions.                  *)
(*   SpecPreload  the image preloading of InteractivePreview.              *)
(* A specification leaves the variables of the other parts unchanged.      *)
(***************************************************************************)
EXTENDS Integers, Sequences, FiniteSets, Bags, TLC

VARIABLES
    settings,         \* App: useState<ConversionSettings>
    files,            \* App: useState<File[]>, as files.length
    status,           \* App: useState<Status>
    error,            \* App: useState<string | null>
    result,           \* App: useState<ConversionResponse | null>
    gifUrl,           \* App: useState<string | null>
    previewData,      \* App: useState<PreviewResponse | null>
    isPlaying,        \* App: useState(false)
    requests,         \* the server calls whose promise has not settled yet
    frames,           \* InteractivePreview prop frames, as frames.length
    currentSlice,     \* App: useState(0), display index of the preview
    filteredIndices,  \* InteractivePreview: useMemo value
    drawnFrame,       \* index into loadedImages of the image drawFrame drew last, -1 before any draw
    img,              \* the loaded image drawFrame draws: [width, height, base]
    canvas,           \* the canvas element: [width, height, data]
    toggles,          \* history: Reverse presses since the range was last edited
    order0,           \* history: displayed frame order when toggles was 0
    presses,          \* history: Rotate presses since the snapshot
    rotate0,          \* history: settings.rotate90 at the snapshot
    canvas0,          \* history: canvas at the snapshot
    rafPending,       \* animation-frame callbacks requested and neither run nor cancelled
    animationRef,     \* InteractivePreview: animationRef.current, 0 for null
    lastFrameTimeRef, \* InteractivePreview: lastFrameTimeRef.current
    clock,            \* performance.now(), in milliseconds
    loadedImages,     \* InteractivePreview: useState<HTMLImageElement[]>, as the preload run that built it
    preloads          \* the runs of the preload effect: their images, counter and handlers

appVars == <<files, status, error, result, gifUrl, previewData, isPlaying, requests>>

componentVars == <<frames, filteredIndices, drawnFrame, toggles, order0>>

previewVars == <<componentVars, currentSlice>>

renderVars == <<img, canvas, presses, rotate0, canvas0>>

historyVars == <<toggles, order0>>

playVars == <<rafPending, animationRef, lastFrameTimeRef, clock>>

preloadVars == <<loadedImages, preloads>>

vars == <<settings, appVars, previewVars, renderVars, playVars, preloadVars>>

---------------------------------------------------------------------------
(* Bounds of the model *)

\* largest frames.length explored
MaxTotal == 10

\* the slice-range sliders are moved to multiples of SliderStep
SliderStep == 10

(* Program constants *)

\* percentages run 0..100 (sliceStart / sliceEnd)
Percent == 100

\* updateSliceRange keeps sliceEnd - sliceStart >= MinGap
MinGap == 5

Max(a, b) == IF a >= b THEN a ELSE b

Min(a, b) == IF a <= b THEN a ELSE b

\* App: the initial useState<ConversionSettings> value
InitialSettings ==
    [ mode |-> "volume", orientation |-> "axial", fps |-> 10, colormap |-> "gray",
      sliceStart |-> 0, sliceEnd |-> 100,
      windowMode |-> "auto", windowLevel |-> 50, windowWidth |-> 98,
      flipHorizontal |-> FALSE, flipVertical |-> FALSE, rotate90 |-> 0,
      reverseSlices |-> FALSE, maxGifSize |-> 512, maxFrames |-> 0 ]

\* null of the TypeScript state; every non-null value of a nullable variable
\* is a record with other fields
NULL == [null |-> TRUE]

\* previewSize of the preview request
PreviewSize == 320

\* the PreviewSettings handleLoadPreview passes to getPreviewFrames, which
\* sends every field of it to the server
PreviewParams(s) ==
    [ mode |-> s.mode, orientation |-> s.orientation, windowMode |-> s.windowMode,
      windowWidth |-> s.windowWidth, windowLevel |-> s.windowLevel,
      previewSize |-> PreviewSize ]

\* App state while a loaded preview is shown, for the specifications of the
\* InteractivePreview component alone
AppPreviewing ==
    /\ files = 1
    /\ status = "previewing"
    /\ error = NULL
    /\ result = NULL
    /\ gifUrl = NULL
    /\ previewData = [requested |-> PreviewParams(InitialSettings)]
    /\ isPlaying = FALSE
    /\ requests = EmptyBag

\* the animation loop before it has ever run: useRef(null), useRef(0)
PlayIdle ==
    /\ rafPending = {}
    /\ animationRef = 0
    /\ lastFrameTimeRef = 0
    /\ clock = 0

\* useState<HTMLImageElement[]>([])
NoImages == [run |-> 0, length |-> 0]

\* the preload effect has not run.  Outside SpecPreload the images of a
\* preview count as loaded as soon as it is rendered (frames stands for
\* loadedImages.length as well) and the preload state is left alone.
PreloadIdle ==
    /\ loadedImages = NoImages
    /\ preloads = <<>>

\* canvas part at rest, for the specifications that do not look at pixels
RenderIdle ==
    /\ img = [width |-> 1, height |-> 1, base |-> 0]
    /\ canvas = NULL
    /\ presses = 0
    /\ rotate0 = 0
    /\ canvas0 = NULL
    /\ PlayIdle
    /\ PreloadIdle

---------------------------------------------------------------------------
(* InteractivePreview: slice-range filter *)

\* Math.floor(total * pct / 100). total * pct is an exact integer below 2^53
\* and the correctly rounded quotient of an integer by 100 never crosses an
\* integer, so the floating-point floor is the integer quotient.
FloorPct(total, pct) == (total * pct) \div Percent

\* the for loop of filteredIndices: for (i = startIdx; i < endIdx && i < total; i++) indices.push(i)
RECURSIVE FilterLoop(_, _, _, _)
FilterLoop(i, endIdx, total, indices) ==
    IF i < endIdx /\ i < total
    THEN FilterLoop(i + 1, endIdx, total, Append(indices, i))
    ELSE indices

FilteredIndicesNoMax(total, sliceStart, sliceEnd) ==
    LET startIdx == FloorPct(total, sliceStart)
        endIdx   == FloorPct(total, sliceEnd)
    IN  FilterLoop(startIdx, endIdx, total, <<>>)

FilteredIndicesInclusiveEnd(total, sliceStart, sliceEnd) ==
    LET startIdx == FloorPct(total, sliceStart)
        endIdx   == Max(startIdx + 1, FloorPct(total, sliceEnd))
    IN  FilterLoop(startIdx, endIdx + 1, total, <<>>)

\* the useMemo body
FilteredIndices(total, sliceStart, sliceEnd) ==
    LET startIdx == FloorPct(total, sliceStart)
        endIdx   == Max(startIdx + 1, FloorPct(total, sliceEnd))
    IN  FilterLoop(startIdx, endIdx, total, <<>>)

\* idx of line 160 when reverseSlices is on
ReverseIndex(filteredFrameCount, displayIdx) == filteredFrameCount - 1 - displayIdx

GetEffectiveIndexOffByOne(displayIdx, reverseSlices, indices) ==
    LET count == Len(indices)
        idx   == IF reverseSlices THEN count - displayIdx ELSE displayIdx
        pos   == Min(Max(0, idx), count - 1)
    IN  IF pos \in 0..(count - 1) THEN indices[pos + 1] ELSE 0

GetEffectiveIndexNoClamp(displayIdx, reverseSlices, indices) ==
    LET count == Len(indices)
        idx   == IF reverseSlices THEN ReverseIndex(count, displayIdx) ELSE displayIdx
    IN  IF idx \in 0..(count - 1) THEN indices[idx + 1] ELSE 0

\* getEffectiveIndex: reverse within the filtered list, clamp, then look up;
\* `?? 0` covers the lookup at -1 in an empty list
GetEffectiveIndex(displayIdx, reverseSlices, indices) ==
    LET count == Len(indices)
        idx   == IF reverseSlices THEN ReverseIndex(count, displayIdx) ELSE displayIdx
        pos   == Min(Max(0, idx), count - 1)
    IN  IF pos \in 0..(count - 1) THEN indices[pos + 1] ELSE 0

ClampSliceOff(slice, filteredFrameCount) == slice

\* the clamp effect: if (currentSlice >= filteredFrameCount) onSliceChange(max(0, filteredFrameCount - 1))
ClampSlice(slice, filteredFrameCount) ==
    IF slice >= filteredFrameCount THEN Max(0, filteredFrameCount - 1) ELSE slice

\* drawFrame, as the image it picks: nothing is drawn (the canvas keeps what
\* it shows) when filteredIndices is empty; the images are loaded and complete
DrawnAfter(displayIdx, reverseSlices, indices, before) ==
    IF Len(indices) = 0 THEN before
    ELSE GetEffectiveIndex(displayIdx, reverseSlices, indices)

\* the frame order the preview plays: display index i -> image index
DisplayOrder(reverseSlices, indices) ==
    [i \in 1..Len(indices) |-> GetEffectiveIndex(i - 1, reverseSlices, indices)]

\* the condition under which App renders InteractivePreview
InteractivePreviewShown == gifUrl = NULL /\ previewData # NULL /\ status = "previewing"

(* The animation loop.  A pending animation-frame callback is the closure   *)
(* `animate` of the effect run that requested it: its id and the fps,       *)
(* filteredFrameCount, reverseSlices, filteredIndices and localSlice it     *)
(* captured.                                                                *)

\* the refs and the browser's callback list as one value
Play == [pending |-> rafPending, ref |-> animationRef, last |-> lastFrameTimeRef]

CancelAnimationForgets(play) == [play EXCEPT !.ref = 0]

\* if (animationRef.current) { cancelAnimationFrame(animationRef.current); animationRef.current = null; }
CancelAnimation(play) ==
    IF play.ref # 0
    THEN [play EXCEPT !.pending = {c \in play.pending : c.id # play.ref}, !.ref = 0]
    ELSE play

\* an id requestAnimationFrame has not handed out among the live ones
FreshId(play) ==
    CHOOSE id \in 1..(Cardinality(play.pending) + 2) :
        /\ id # play.ref
        /\ \A c \in play.pending : c.id # id

\* animationRef.current = requestAnimationFrame(animate)
RequestAnimation(play, animate) ==
    LET id == FreshId(play)
    IN  [play EXCEPT !.pending = @ \cup {[animate EXCEPT !.id = id]}, !.ref = id]

\* the guard of the animation effect: isPlaying, images loaded, frames selected
LoopRuns(playing, loaded, filteredFrameCount) ==
    playing /\ loaded # 0 /\ filteredFrameCount # 0

\* the animation effect body: stop, or note the time and request the first tick
AnimationEffect(play, runs, now, animate) ==
    IF ~runs
    THEN CancelAnimation(play)
    ELSE RequestAnimation([play EXCEPT !.last = now], animate)

\* the values the animation effect and drawFrame depend on: a change of any
\* re-runs the effect
AnimationDeps(s, playing, slice, loaded) ==
    << playing, s.fps, slice, loaded, s.sliceStart, s.sliceEnd,
       s.flipHorizontal, s.flipVertical, s.rotate90, s.reverseSlices, s.colormap >>

LoopAfterRenderLeaks(play, wasShown, ranBefore, sameDeps, isShown, runs, now, animate) ==
    LET cleaned == IF wasShown /\ ranBefore THEN CancelAnimation(play) ELSE play
    IN  IF ~isShown THEN [play EXCEPT !.ref = 0, !.last = 0]
        ELSE IF wasShown /\ sameDeps THEN play
        ELSE AnimationEffect(cleaned, runs, now, animate)

\* what a render pass does to the loop: on unmount the cleanup of a running
\* loop; with unchanged dependencies nothing; else cleanup and effect body
LoopAfterRender(play, wasShown, ranBefore, sameDeps, isShown, runs, now, animate) ==
    LET cleaned == IF wasShown /\ ranBefore THEN CancelAnimation(play) ELSE play
    IN  IF ~isShown THEN [cleaned EXCEPT !.ref = 0, !.last = 0]
        ELSE IF wasShown /\ sameDeps THEN play
        ELSE AnimationEffect(cleaned, runs, now, animate)

\* the render pass that follows a handler, run to quiescence, once the
\* handler has set settings' and the App state: nothing but App state while
\* InteractivePreview is not rendered; else the memo, the clamp effect, the
\* draw effects and the animation effect, over `play`
RenderFrom(play, now, oldSlice, newFrames, newSlice) ==
    LET isShown == InteractivePreviewShown'
        indices == IF isShown
                   THEN FilteredIndices(newFrames, settings'.sliceStart, settings'.sliceEnd)
                   ELSE <<>>
        slice   == IF isShown THEN ClampSlice(newSlice, Len(indices)) ELSE newSlice
        after   == LoopAfterRender(
                       play, InteractivePreviewShown,
                       LoopRuns(isPlaying, frames, Len(filteredIndices)),
                       AnimationDeps(settings', isPlaying', slice, newFrames)
                           = AnimationDeps(settings, isPlaying, oldSlice, frames),
                       isShown, LoopRuns(isPlaying', newFrames, Len(indices)), now,
                       [id |-> 0, fps |-> settings'.fps, reverseSlices |-> settings'.reverseSlices,
                        indices |-> indices, localSlice |-> slice])
    IN  /\ frames' = IF isShown THEN newFrames ELSE 0
        /\ filteredIndices' = indices
        /\ currentSlice' = slice
        /\ drawnFrame' = IF isShown
                         THEN DrawnAfter(slice, settings'.reverseSlices, indices,
                                         IF InteractivePreviewShown THEN drawnFrame ELSE -1)
                         ELSE -1
        /\ rafPending' = after.pending
        /\ animationRef' = after.ref
        /\ lastFrameTimeRef' = after.last

\* the render pass after a user's handler
Render(newFrames, newSlice) ==
    /\ RenderFrom(Play, clock, currentSlice, newFrames, newSlice)
    /\ clock' = clock
    /\ UNCHANGED preloadVars

QualifiesAlways(timestamp, last, fps) == TRUE

\* timestamp - lastFrameTimeRef.current >= frameDuration, frameDuration = 1000 / fps
Qualifies(timestamp, last, fps) == (timestamp - last) * fps >= 1000

AnimateOnStopsAtEnd(play, c, timestamp) ==
    LET fired     == [play EXCEPT !.pending = @ \ {c}]
        qualifies == Qualifies(timestamp, fired.last, c.fps)
        count     == Len(c.indices)
        localSlice == IF qualifies THEN Min(c.localSlice + 1, count - 1) ELSE c.localSlice
        noted     == IF qualifies THEN [fired EXCEPT !.last = timestamp] ELSE fired
        requested == RequestAnimation(noted, [c EXCEPT !.localSlice = localSlice])
    IN  /\ clock' = timestamp
        /\ UNCHANGED <<settings, appVars, historyVars, renderVars, preloadVars>>
        /\ RenderFrom(requested, timestamp, currentSlice, frames,
                      IF qualifies THEN localSlice ELSE currentSlice)

\* the callback `animate` run by the browser at `timestamp`: if a frame
\* interval has passed (timestamp - last >= 1000 / fps) it advances its
\* localSlice, calls onSliceChange and drawFrame and notes the time; it
\* always requests the next callback.  Then the render pass, if any.
AnimateOn(play, c, timestamp) ==
    LET fired     == [play EXCEPT !.pending = @ \ {c}]
        qualifies == Qualifies(timestamp, fired.last, c.fps)
        count     == Len(c.indices)
        localSlice == IF qualifies THEN (c.localSlice + 1) % count ELSE c.localSlice
        noted     == IF qualifies THEN [fired EXCEPT !.last = timestamp] ELSE fired
        requested == RequestAnimation(noted, [c EXCEPT !.localSlice = localSlice])
    IN  /\ clock' = timestamp
        /\ UNCHANGED <<settings, appVars, historyVars, renderVars, preloadVars>>
        /\ RenderFrom(requested, timestamp, currentSlice, frames,
                      IF qualifies THEN localSlice ELSE currentSlice)

\* the callback run against the refs as they are
Animate(c, timestamp) == AnimateOn(Play, c, timestamp)

\* a handler that changes settings or the slice only, and the render pass
Rerender(newSettings, newFrames, newSlice) ==
    /\ settings' = newSettings
    /\ UNCHANGED <<appVars, img, canvas, presses, rotate0, canvas0>>
    /\ Render(newFrames, newSlice)

---------------------------------------------------------------------------
(* SpecFilter: InteractivePreview rendered with arbitrary props.  The       *)
(* component is (re)rendered with any frames.length in 0..MaxTotal and any  *)
(* sliceStart, sliceEnd in 0..100; every render recomputes the memo and     *)
(* runs the effects.                                                        *)

PropSettings(s, e) == [InitialSettings EXCEPT !.sliceStart = s, !.sliceEnd = e]

\* first render: the memo is computed, nothing is drawn yet before the effects run
InitFilter ==
    \E total \in 0..MaxTotal, s \in 0..Percent, e \in 0..Percent :
        /\ settings = PropSettings(s, e)
        /\ frames = total
        /\ currentSlice = 0
        /\ filteredIndices = FilteredIndices(total, s, e)
        /\ drawnFrame = DrawnAfter(0, FALSE, FilteredIndices(total, s, e), -1)
        /\ toggles = 0
        /\ order0 = <<>>
        /\ AppPreviewing
        /\ RenderIdle

\* re-render with the sliceStart prop changed
RenderSliceStart ==
    \E s \in {settings.sliceStart - 1, settings.sliceStart + 1} :
        /\ s \in 0..Percent
        /\ Rerender([settings EXCEPT !.sliceStart = s], frames, currentSlice)
        /\ UNCHANGED <<toggles, order0>>

\* re-render with the sliceEnd prop changed
RenderSliceEnd ==
    \E e \in {settings.sliceEnd - 1, settings.sliceEnd + 1} :
        /\ e \in 0..Percent
        /\ Rerender([settings EXCEPT !.sliceEnd = e], frames, currentSlice)
        /\ UNCHANGED <<toggles, order0>>

\* re-render with a frames prop of another length
RenderFrames ==
    \E total \in {frames - 1, frames + 1} :
        /\ total \in 0..MaxTotal
        /\ Rerender(settings, total, currentSlice)
        /\ UNCHANGED <<toggles, order0>>

NextFilter == RenderSliceStart \/ RenderSliceEnd \/ RenderFrames

SpecFilter == InitFilter /\ [][NextFilter]_vars

\* startIndex and endIndex of the encoder's formula
EncStart == (frames * settings.sliceStart) \div 100

EncEnd == Max(EncStart + 1, (frames * settings.sliceEnd) \div 100)

\* C2: for every total >= 0 and sliceStart, sliceEnd in 0..100 the filtered
\* index list is the ascending list of exactly the i with
\* startIndex <= i < min(endIndex, total).
C2_FilterMatchesEncoderFormula ==
    LET S == {i \in 0..MaxTotal + 1 : EncStart <= i /\ i < Min(EncEnd, frames)}
    IN  /\ {filteredIndices[k] : k \in 1..Len(filteredIndices)} = S
        /\ Len(filteredIndices) = Cardinality(S)
        /\ \A k \in 1..(Len(filteredIndices) - 1) : filteredIndices[k] < filteredIndices[k + 1]

\* C2 witness: a proper sub-range of a ten-frame preview has been computed
C2_Witness ==
    /\ frames = 10 /\ settings.sliceStart = 25 /\ settings.sliceEnd = 77
    /\ filteredIndices = <<2, 3, 4, 5, 6>>

\* C6: for total >= 1 and 0 <= sliceStart < sliceEnd <= 100 the selection is
\* non-empty, strictly increasing and within 0..total-1.
C6_ValidRangeNonEmptyOrdered ==
    (frames >= 1 /\ settings.sliceStart < settings.sliceEnd) =>
        /\ Len(filteredIndices) >= 1
        /\ \A k \in 1..(Len(filteredIndices) - 1) : filteredIndices[k] < filteredIndices[k + 1]
        /\ \A k \in 1..Len(filteredIndices) : filteredIndices[k] \in 0..(frames - 1)

\* C6 witness: a narrow valid range that floors to the same index at both ends
C6_Witness ==
    /\ frames = 3 /\ settings.sliceStart = 40 /\ settings.sliceEnd = 45
    /\ filteredIndices = <<1>>

\* C7 as stated: for total >= 1 and sliceEnd <= sliceStart in 0..100 (start
\* and end collapsed) the selection holds at least one frame.
C7_Original ==
    (frames >= 1 /\ settings.sliceEnd <= settings.sliceStart) => Len(filteredIndices) >= 1

\* C7 amended: for total >= 1 and sliceEnd <= sliceStart with sliceStart in
\* 0..99 the selection holds exactly one frame, floor(total*sliceStart/100);
\* with sliceStart = 100 the selection is empty.
C7_CollapsedRangeNonEmpty ==
    (frames >= 1 /\ settings.sliceEnd <= settings.sliceStart) =>
        IF settings.sliceStart < Percent
        THEN filteredIndices = <<(frames * settings.sliceStart) \div 100>>
        ELSE filteredIndices = <<>>

\* C7 witness: start and end collapsed in the middle of the volume
C7_Witness ==
    /\ frames = 8 /\ settings.sliceStart = 50 /\ settings.sliceEnd = 50
    /\ filteredIndices = <<4>>

\* the display indices getEffectiveIndex is given: those of the selection and
\* as many below 0 and above the last one
DisplayIndices == (0 - MaxTotal - 1)..(2 * MaxTotal + 1)

\* C27: for every display index, negative or beyond the selection, and either
\* direction, getEffectiveIndex returns a member of a non-empty filtered list,
\* and the frame drawn is a member of it; with an empty list it returns 0 and
\* drawFrame leaves the canvas as it was.
C27_EffectiveIndexIsSelected ==
    LET selected == {filteredIndices[k] : k \in 1..Len(filteredIndices)}
    IN  \A d \in DisplayIndices, r \in BOOLEAN :
            IF filteredIndices # <<>>
            THEN /\ GetEffectiveIndex(d, r, filteredIndices) \in selected
                 /\ DrawnAfter(d, r, filteredIndices, drawnFrame) \in selected
                 /\ drawnFrame \in selected
            ELSE /\ GetEffectiveIndex(d, r, filteredIndices) = 0
                 /\ DrawnAfter(d, r, filteredIndices, drawnFrame) = drawnFrame

\* C27 witness: a selection that does not hold frame 0; display index -1
\* reversed and display index 99 both map to its last frame
C27_Witness ==
    /\ frames = 10 /\ filteredIndices = <<3, 4, 5>> /\ drawnFrame = 3
    /\ GetEffectiveIndex(-1, TRUE, filteredIndices) = 5
    /\ GetEffectiveIndex(2 * MaxTotal + 1, FALSE, filteredIndices) = 5

---------------------------------------------------------------------------
(* SpecPreview: the loaded interactive preview driven by the user: the      *)
(* slice-range sliders and the Reverse button of ConversionOptions, and the *)
(* step buttons and frame slider of InteractivePreview.  Every handler is   *)
(* followed by the re-render it causes.                                     *)

\* positions the start slider (min 0, max 95) is moved to
StartStops == {v \in 0..(Percent - MinGap) : v % SliderStep = 0}

\* positions the end slider (min 5, max 100) is moved to
EndStops == {v \in MinGap..Percent : v % SliderStep = 0}

SliceRangeAfterNoGap(start, end, cur) == [sliceStart |-> start, sliceEnd |-> end]

\* updateSliceRange(start, end): the pair it stores
SliceRangeAfter(start, end, cur) ==
    IF start >= end - MinGap
    THEN IF start = cur.sliceStart
         THEN [sliceStart |-> start, sliceEnd |-> Min(Percent, start + MinGap)]
         ELSE [sliceStart |-> Max(0, end - MinGap), sliceEnd |-> end]
    ELSE [sliceStart |-> start, sliceEnd |-> end]

\* the preview has just been loaded: App state after handleLoadPreview resolved
InitPreview ==
    \E total \in 0..MaxTotal :
        /\ settings = InitialSettings
        /\ frames = total
        /\ currentSlice = 0
        /\ filteredIndices = FilteredIndices(total, 0, Percent)
        /\ drawnFrame = DrawnAfter(0, FALSE, FilteredIndices(total, 0, Percent), -1)
        /\ toggles = 0
        /\ order0 = DisplayOrder(FALSE, FilteredIndices(total, 0, Percent))
        /\ AppPreviewing
        /\ RenderIdle

\* a range edit starts a new history of Reverse presses
RangeEdited(r) ==
    /\ Rerender([settings EXCEPT !.sliceStart = r.sliceStart, !.sliceEnd = r.sliceEnd],
                frames, currentSlice)
    /\ toggles' = 0
    /\ order0' = DisplayOrder(settings.reverseSlices,
                              FilteredIndices(frames, r.sliceStart, r.sliceEnd))

\* start slider onChange: updateSliceRange(value, settings.sliceEnd)
UpdateSliceStart ==
    \E v \in StartStops : RangeEdited(SliceRangeAfter(v, settings.sliceEnd, settings))

\* end slider onChange: updateSliceRange(settings.sliceStart, value)
UpdateSliceEnd ==
    \E v \in EndStops : RangeEdited(SliceRangeAfter(settings.sliceStart, v, settings))

ToggleReverseSlicesSetsTrue ==
    /\ Rerender([settings EXCEPT !.reverseSlices = TRUE], frames, currentSlice)
    /\ toggles' = IF toggles = 2 THEN 1 ELSE toggles + 1
    /\ order0' = IF toggles = 2 THEN DisplayOrder(settings.reverseSlices, filteredIndices)
                 ELSE order0

\* Reverse button: updateSetting('reverseSlices', !settings.reverseSlices)
ToggleReverseSlices ==
    /\ Rerender([settings EXCEPT !.reverseSlices = ~settings.reverseSlices], frames, currentSlice)
    /\ toggles' = IF toggles = 2 THEN 1 ELSE toggles + 1
    /\ order0' = IF toggles = 2 THEN DisplayOrder(settings.reverseSlices, filteredIndices)
                 ELSE order0

\* Previous frame button: onSliceChange(Math.max(0, currentSlice - 1))
StepBackward ==
    /\ frames > 0
    /\ Rerender(settings, frames, Max(0, currentSlice - 1))
    /\ UNCHANGED <<toggles, order0>>

\* Next frame button: onSliceChange(Math.min(filteredFrameCount - 1, currentSlice + 1))
StepForward ==
    /\ frames > 0
    /\ Rerender(settings, frames, Min(Len(filteredIndices) - 1, currentSlice + 1))
    /\ UNCHANGED <<toggles, order0>>

\* frame slider (min 0, max Math.max(0, filteredFrameCount - 1)): onSliceChange(value)
SlideToFrame ==
    /\ frames > 0
    /\ \E v \in 0..Max(0, Len(filteredIndices) - 1) : Rerender(settings, frames, v)
    /\ UNCHANGED <<toggles, order0>>

NextPreview ==
    \/ UpdateSliceStart
    \/ UpdateSliceEnd
    \/ ToggleReverseSlices
    \/ StepBackward
    \/ StepForward
    \/ SlideToFrame

SpecPreview == InitPreview /\ [][NextPreview]_vars

\* C3: reversal acts on the filtered list: with N filtered frames display
\* index i shows filtered position N-1-i when reverseSlices is on and
\* position i when it is off, the drawn frame is the one at currentSlice, and
\* 10 frames with 20%-80% reversed play in physical order 7,6,5,4,3,2.
C3_ReverseAfterFilter ==
    LET N == Len(filteredIndices)
    IN  /\ \A i \in 0..(N - 1) :
               GetEffectiveIndex(i, settings.reverseSlices, filteredIndices) =
                   IF settings.reverseSlices THEN filteredIndices[N - i]
                   ELSE filteredIndices[i + 1]
        /\ N > 0 =>
               drawnFrame = IF settings.reverseSlices THEN filteredIndices[N - currentSlice]
                            ELSE filteredIndices[currentSlice + 1]
        /\ (frames = 10 /\ settings.sliceStart = 20 /\ settings.sliceEnd = 80
              /\ settings.reverseSlices) =>
               DisplayOrder(settings.reverseSlices, filteredIndices) = <<7, 6, 5, 4, 3, 2>>

\* C3 witness: the 20%-80% example, reversed, showing its second frame
C3_Witness ==
    /\ frames = 10 /\ settings.sliceStart = 20 /\ settings.sliceEnd = 80
    /\ settings.reverseSlices /\ currentSlice = 1 /\ drawnFrame = 6

\* C8: two presses of Reverse restore the frame order and the frame shown,
\* and i -> N-1-i applied twice is the identity on 0..N-1.
C8_ReverseTwiceRestores ==
    LET N == Len(filteredIndices)
    IN  /\ toggles = 2 =>
               /\ DisplayOrder(settings.reverseSlices, filteredIndices) = order0
               /\ N > 0 => drawnFrame = order0[currentSlice + 1]
        /\ toggles = 1 =>
               \A i \in 1..N :
                   DisplayOrder(settings.reverseSlices, filteredIndices)[i] = order0[N + 1 - i]
        /\ \A i \in 0..(N - 1) : ReverseIndex(N, ReverseIndex(N, i)) = i

\* C8 witness: Reverse pressed twice on a selection of several frames
C8_Witness ==
    /\ toggles = 2 /\ Len(filteredIndices) = 6 /\ ~settings.reverseSlices
    /\ order0 = <<2, 3, 4, 5, 6, 7>> /\ currentSlice = 2 /\ drawnFrame = 4

---------------------------------------------------------------------------
(* SpecFrameCount: the loaded preview of a long series while the user       *)
(* picks the frame limit of the GIF and edits the slice range.              *)

\* largest frames.length explored with a frame limit
MaxSeries == 60

\* the <option> values of the max-frames select
MaxFramesOptions == {0, 50, 100, 150, 200}

InitFrameCount ==
    \E total \in 0..MaxSeries :
        /\ settings = InitialSettings
        /\ frames = total
        /\ currentSlice = 0
        /\ filteredIndices = FilteredIndices(total, 0, Percent)
        /\ drawnFrame = DrawnAfter(0, FALSE, FilteredIndices(total, 0, Percent), -1)
        /\ toggles = 0
        /\ order0 = DisplayOrder(FALSE, FilteredIndices(total, 0, Percent))
        /\ AppPreviewing
        /\ RenderIdle

\* max-frames select onChange: updateSetting('maxFrames', value).  App passes
\* no maxFrames prop to InteractivePreview: the re-render sees the same props.
SelectMaxFrames ==
    \E v \in MaxFramesOptions :
        /\ Rerender([settings EXCEPT !.maxFrames = v], frames, currentSlice)
        /\ UNCHANGED <<toggles, order0>>

NextFrameCount ==
    \/ SelectMaxFrames
    \/ UpdateSliceStart
    \/ UpdateSliceEnd

SpecFrameCount == InitFrameCount /\ [][NextFrameCount]_vars

\* number of frames the preview plays (filteredFrameCount)
PreviewFrameCount == Len(filteredIndices)

\* length of the selected range startIndex <= i < min(endIndex, total)
SelectedRangeLength == Max(0, Min(EncEnd, frames) - EncStart)

\* C11: the number of frames the preview plays equals the length of the
\* final FrameSet for the same settings: min(selected range length,
\* maxFrames) when maxFrames > 0, the selected range length otherwise.
C11_PreviewCountMatchesFrameSet ==
    PreviewFrameCount =
        IF settings.maxFrames > 0
        THEN Min(SelectedRangeLength, settings.maxFrames)
        ELSE SelectedRangeLength

---------------------------------------------------------------------------
(* InteractivePreview: colormap lookup tables.  t = i/255; every table      *)
(* entry is Math.round of a rational number, computed here exactly.  Where  *)
(* the exact value is a tie k + 1/2 the source's IEEE-754 double evaluation *)
(* decides: the *TieLow sets list the indices at which the double falls     *)
(* just below the tie, so that Math.round gives k instead of k + 1.         *)

\* Math.round(num / den) for den > 0: nearest integer, ties towards +infinity
RoundHalfUp(num, den) == (2 * num + den) \div (2 * den)

\* Math.round((c0 + c1 t + c2 t^2 + c3 t^3) * 255) with the coefficients given
\* in thousandths; evaluated by Horner's rule in stages that fit 32 bits
PolyRound(c0, c1, c2, c3, i) ==
    LET a == c2 * 255 + c3 * i
        b == c1 * 65025 + i * a
        q == b \div 65025
        r == b % 65025
        m == c0 * 255 + i * q + (i * r) \div 65025
    IN  (m + 500) \div 1000

Below(i, S) == IF i \in S THEN 1 ELSE 0

PlasmaRTieLow == {150, 155}

BoneRTieLow == {198, 207, 234, 243}

JetRTieLow ==
    {96, 97, 100, 101, 104, 105, 108, 109, 113, 117, 121, 125, 129, 130, 131, 137,
     138, 139, 145, 146, 147, 153, 154, 155, 228, 229, 230, 236, 237, 238, 244, 245,
     246, 252, 253}

JetGTieLow ==
    {32, 34, 36, 38, 65, 69, 73, 77, 81, 85, 89, 93, 164, 165, 166, 172, 173, 174,
     180, 181, 182, 188, 189, 190, 196, 197, 198, 204, 205, 206, 212, 213, 214, 220,
     221, 222, 223}

JetBTieLow ==
    {5, 9, 13, 17, 21, 25, 29, 98, 102, 106, 110, 114, 118, 122, 126, 132, 133, 134,
     140, 141, 142, 148, 149, 150, 151, 156, 157, 158, 159}

\* generateViridisLUT, entry i
GenerateViridisLUT(i) ==
    << PolyRound(267, 329, 1260, -1856, i),
       PolyRound(4, 873, 688, -565, i),
       PolyRound(329, 1579, -2931, 1023, i) >>

\* generatePlasmaLUT, entry i
GeneratePlasmaLUT(i) ==
    << PolyRound(50, 2735, -1785, 0, i) - Below(i, PlasmaRTieLow),
       PolyRound(30, 214, 2120, -1364, i),
       PolyRound(528, 1088, -2952, 1336, i) >>

\* generateHotLUT, entry i: min(1, max(0, 3t - k)) * 255 = clamp of 3i - 255k
GenerateHotLUT(i) ==
    << Min(255, 3 * i),
       Min(255, Max(0, 3 * i - 255)),
       Min(255, Max(0, 3 * i - 510)) >>

\* generateBoneLUT, entry i: t < 0.75 is 4i < 765, t < 0.375 is 8i < 765
GenerateBoneLUT(i) ==
    << (IF 4 * i < 765 THEN RoundHalfUp(8 * i, 9)
        ELSE RoundHalfUp(4 * i + 2295, 18)) - Below(i, BoneRTieLow),
       IF 8 * i < 765 THEN RoundHalfUp(8 * i, 9)
       ELSE IF 4 * i < 765 THEN RoundHalfUp(8 * i + 2295, 36)
       ELSE RoundHalfUp(4 * i - 85, 4),
       IF 8 * i < 765 THEN RoundHalfUp(10 * i, 9)
       ELSE RoundHalfUp(32 * i + 765, 36) >>

\* generateJetLUT, entry i: the five segments end at t = 0.125, 0.375, 0.625, 0.875
GenerateJetLUT(i) ==
    LET e == IF 8 * i < 255 THEN << 0, 0, RoundHalfUp(255 + 8 * i, 2) >>
             ELSE IF 8 * i < 765 THEN << 0, RoundHalfUp(8 * i - 255, 2), 255 >>
             ELSE IF 8 * i < 1275
                  THEN << RoundHalfUp(8 * i - 765, 2), 255, RoundHalfUp(1275 - 8 * i, 2) >>
             ELSE IF 8 * i < 1785 THEN << 255, RoundHalfUp(1785 - 8 * i, 2), 0 >>
             ELSE << RoundHalfUp(2295 - 8 * i, 2), 0, 0 >>
    IN  << e[1] - Below(i, JetRTieLow), e[2] - Below(i, JetGTieLow),
           e[3] - Below(i, JetBTieLow) >>

Colormaps == {"gray", "viridis", "plasma", "hot", "bone", "jet"}

ColormapLengthShort(name) == IF name = "gray" THEN 0 ELSE 255

\* COLORMAPS[name].length: gray has no table, the generators push 256 entries
ColormapLength(name) == IF name = "gray" THEN 0 ELSE 256

\* COLORMAPS[name][i] for 0 <= i < COLORMAPS[name].length
ColormapEntry(name, i) ==
    CASE name = "viridis" -> GenerateViridisLUT(i)
      [] name = "plasma"  -> GeneratePlasmaLUT(i)
      [] name = "hot"     -> GenerateHotLUT(i)
      [] name = "bone"    -> GenerateBoneLUT(i)
      [] name = "jet"     -> GenerateJetLUT(i)

\* a store into ImageData.data (Uint8ClampedArray)
ClampByte(v) == Min(255, Max(0, v))

ApplyColormapGrayThroughTable(data, colormap) ==
    [p \in DOMAIN data |->
        LET gray == data[p][1]
            e == ColormapEntry(IF colormap = "gray" THEN "bone" ELSE colormap, gray)
        IN  << ClampByte(e[1]), ClampByte(e[2]), ClampByte(e[3]), data[p][4] >>]

\* applyColormap on the RGBA pixels of the canvas
ApplyColormap(data, colormap) ==
    IF colormap = "gray" THEN data
    ELSE IF ColormapLength(colormap) = 0 THEN data
    ELSE [p \in DOMAIN data |->
            LET gray == data[p][1]
                e == IF gray < ColormapLength(colormap) THEN ColormapEntry(colormap, gray)
                     ELSE << gray, gray, gray >>
            IN  << ClampByte(e[1]), ClampByte(e[2]), ClampByte(e[3]), data[p][4] >>]

---------------------------------------------------------------------------
(* InteractivePreview: drawFrame on a pixel grid.  An image is a            *)
(* width x height grid of gray levels; pixel (x, y) has x counted from the  *)
(* left and y from the top.  The canvas transform is exact for quarter      *)
(* turns (the 1e-16 residue of Math.cos(Math.PI/2) is below a pixel), so a  *)
(* source pixel lands on exactly one canvas pixel.                          *)

\* largest image width and height explored
MaxDim == 2

\* the loaded images explored: a single pixel of every gray level, and ramps
\* of every size up to MaxDim x MaxDim whose pixels are pairwise different
RampBases == {0, 100, 254}

Images ==
    {[width |-> 1, height |-> 1, base |-> b] : b \in 0..255} \cup
    {[width |-> w, height |-> h, base |-> b] : w \in 1..MaxDim, h \in 1..MaxDim, b \in RampBases}

\* gray level of pixel (x, y) of an image
GrayAt(image, x, y) == (image.base + y * image.width + x) % 256

Cells(w, h) == (0..(w - 1)) \X (0..(h - 1))

\* Math.cos(-k * Math.PI / 2) and Math.sin(-k * Math.PI / 2), to the nearest integer
RotCos(k) == CASE k % 4 = 0 -> 1 [] k % 4 = 1 -> 0 [] k % 4 = 2 -> -1 [] k % 4 = 3 -> 0

RotSin(k) == CASE k % 4 = 0 -> 0 [] k % 4 = 1 -> -1 [] k % 4 = 2 -> 0 [] k % 4 = 3 -> 1

\* The canvas pixel on which source pixel (x, y) is painted by
\*   ctx.translate(cw/2, ch/2); ctx.rotate(-rotate90*PI/2); ctx.scale(sx, sy);
\*   ctx.drawImage(img, -w/2, -h/2)
\* The current transform is T.R.S: a point of the image is scaled first, then
\* rotated, then translated.  Coordinates are doubled to stay integral: the
\* centre of pixel (x, y) is at (2x + 1 - w, 2y + 1 - h) / 2 in user space.
CanvasCell(x, y, w, h, cw, ch, s) ==
    LET sx == IF s.flipHorizontal THEN -1 ELSE 1
        sy == IF s.flipVertical THEN -1 ELSE 1
        ux == sx * (2 * x + 1 - w)
        uy == sy * (2 * y + 1 - h)
        rx == ux * RotCos(s.rotate90) - uy * RotSin(s.rotate90)
        ry == ux * RotSin(s.rotate90) + uy * RotCos(s.rotate90)
    IN  << (cw + rx - 1) \div 2, (ch + ry - 1) \div 2 >>

\* drawFrame up to ctx.restore(): canvas size, clearRect, transformed drawImage.
\* A cleared pixel is transparent black, a painted one opaque gray.
DrawImage(image, s) ==
    LET w  == image.width
        h  == image.height
        rotated == s.rotate90 % 2 # 0
        cw == IF rotated THEN h ELSE w
        ch == IF rotated THEN w ELSE h
        dest == [q \in Cells(w, h) |-> CanvasCell(q[1], q[2], w, h, cw, ch, s)]
        src(p) == {q \in Cells(w, h) : dest[q] = p}
    IN  [ width |-> cw, height |-> ch,
          data |-> [p \in Cells(cw, ch) |->
                      IF src(p) = {} THEN << 0, 0, 0, 0 >>
                      ELSE LET q == CHOOSE q \in src(p) : TRUE
                               g == GrayAt(image, q[1], q[2])
                           IN  << g, g, g, 255 >>] ]

\* drawFrame: the transformed image, then applyColormap over the whole canvas
DrawFrame(image, s) ==
    LET drawn == DrawImage(image, s)
    IN  [drawn EXCEPT !.data = ApplyColormap(drawn.data, s.colormap)]

---------------------------------------------------------------------------
(* SpecRender: a loaded, paused preview showing one image while the user    *)
(* presses the transform buttons and picks colormaps.  Every handler is     *)
(* followed by the redraw its re-render causes.                             *)

InitRender ==
    \E image \in Images :
        /\ settings = InitialSettings
        /\ img = image
        /\ canvas = DrawFrame(image, InitialSettings)
        /\ presses = 0
        /\ rotate0 = 0
        /\ canvas0 = DrawFrame(image, InitialSettings)
        /\ AppPreviewing
        /\ PlayIdle
        /\ PreloadIdle
        /\ frames = 1
        /\ currentSlice = 0
        /\ filteredIndices = <<0>>
        /\ drawnFrame = 0
        /\ toggles = 0
        /\ order0 = <<0>>

\* a settings edit other than Rotate: redraw and restart the press history
Redraw(newSettings) ==
    /\ settings' = newSettings
    /\ canvas' = DrawFrame(img, newSettings)
    /\ presses' = 0
    /\ rotate0' = newSettings.rotate90
    /\ canvas0' = canvas'
    /\ UNCHANGED <<img, appVars, previewVars, playVars, preloadVars>>

\* L/R button: updateSetting('flipHorizontal', !settings.flipHorizontal)
ToggleFlipHorizontal == Redraw([settings EXCEPT !.flipHorizontal = ~settings.flipHorizontal])

\* U/D button: updateSetting('flipVertical', !settings.flipVertical)
ToggleFlipVertical == Redraw([settings EXCEPT !.flipVertical = ~settings.flipVertical])

\* colormap select: updateSetting('colormap', value)
SelectColormap == \E c \in Colormaps : Redraw([settings EXCEPT !.colormap = c])

NewRotationModThree(rotate90) == (rotate90 + 1) % 3

\* rotateClockwise: newRotation
NewRotation(rotate90) == (rotate90 + 1) % 4

\* Rot button: rotateClockwise, then the redraw
RotateClockwise ==
    LET newSettings == [settings EXCEPT !.rotate90 = NewRotation(settings.rotate90)]
    IN  /\ settings' = newSettings
        /\ canvas' = DrawFrame(img, newSettings)
        /\ presses' = IF presses = 4 THEN 1 ELSE presses + 1
        /\ rotate0' = IF presses = 4 THEN settings.rotate90 ELSE rotate0
        /\ canvas0' = IF presses = 4 THEN canvas ELSE canvas0
        /\ UNCHANGED <<img, appVars, previewVars, playVars, preloadVars>>

NextRender ==
    \/ ToggleFlipHorizontal
    \/ ToggleFlipVertical
    \/ SelectColormap
    \/ RotateClockwise

SpecRender == InitRender /\ [][NextRender]_vars

(* Reference transforms on a grid [width, height, gray], gray a function on *)
(* Cells(width, height).                                                    *)

RefGrid(image) ==
    [ width |-> image.width, height |-> image.height,
      gray |-> [p \in Cells(image.width, image.height) |-> GrayAt(image, p[1], p[2])] ]

\* quarter turn clockwise: the left column becomes the top row, the top-left
\* pixel goes to the top-right corner
RefRotateCW(g) ==
    [ width |-> g.height, height |-> g.width,
      gray |-> [p \in Cells(g.height, g.width) |-> g.gray[<< p[2], g.height - 1 - p[1] >>]] ]

RECURSIVE RefRotate(_, _)
RefRotate(g, k) == IF k = 0 THEN g ELSE RefRotate(RefRotateCW(g), k - 1)

\* mirror left-right
RefFlipH(g) == [g EXCEPT !.gray = [p \in DOMAIN g.gray |-> g.gray[<< g.width - 1 - p[1], p[2] >>]]]

\* mirror top-bottom
RefFlipV(g) == [g EXCEPT !.gray = [p \in DOMAIN g.gray |-> g.gray[<< p[1], g.height - 1 - p[2] >>]]]

\* rotate first, then flip horizontal, then flip vertical
RefTransform(image, s) ==
    LET r == RefRotate(RefGrid(image), s.rotate90)
        h == IF s.flipHorizontal THEN RefFlipH(r) ELSE r
    IN  IF s.flipVertical THEN RefFlipV(h) ELSE h

\* a reference grid as the canvas would hold it under a colormap
RefCanvas(g, colormap) ==
    [ width |-> g.width, height |-> g.height,
      data |-> ApplyColormap([p \in DOMAIN g.gray |-> << g.gray[p], g.gray[p], g.gray[p], 255 >>],
                             colormap) ]

\* C4: for every grid and every (rotate90, flipHorizontal, flipVertical) the
\* canvas equals the reference composition flipV(flipH(rotate(frame))), the
\* rotation being rotate90 quarter turns clockwise.
C4_RotateThenFlips == canvas = RefCanvas(RefTransform(img, settings), settings.colormap)

\* C5: with both flips off the frame is rotated by rotate90 quarter turns
\* clockwise; for rotate90 = 1 the top-left source pixel is drawn in the
\* top-right corner of the canvas.
C5_RotatesClockwise ==
    (~settings.flipHorizontal /\ ~settings.flipVertical) =>
        /\ canvas = RefCanvas(RefRotate(RefGrid(img), settings.rotate90), settings.colormap)
        /\ (settings.rotate90 = 1 /\ settings.colormap = "gray") =>
               canvas.data[<< canvas.width - 1, 0 >>][1] = GrayAt(img, 0, 0)

\* C9: the Rot button keeps rotate90 in 0..3, stepping it by one modulo four,
\* and after four presses rotate90 and the canvas (size and pixels) are what
\* they were before the presses.
C9_RotateFourTimesIdentity ==
    /\ settings.rotate90 \in 0..3
    /\ settings.rotate90 = (rotate0 + presses) % 4
    /\ presses = 4 => (settings.rotate90 = rotate0 /\ canvas = canvas0)

\* C9 witness: four presses on a flipped non-square ramp that started transposed
C9_Witness ==
    /\ presses = 4 /\ img.width = 2 /\ img.height = 1 /\ rotate0 = 1
    /\ canvas.width = 1 /\ canvas.height = 2 /\ settings.flipHorizontal

\* C10: with colormap gray the colormap stage changes no pixel: every canvas
\* pixel is (v, v, v) for the gray level v painted there, every gray level
\* 0..255 included, whatever the transforms are.
C10_GrayIsIdentity ==
    settings.colormap = "gray" =>
        /\ canvas.data = DrawImage(img, settings).data
        /\ \A p \in DOMAIN canvas.data :
               \E q \in Cells(img.width, img.height) :
                   LET v == GrayAt(img, q[1], q[2])
                   IN  canvas.data[p] = << v, v, v, 255 >>
        /\ \A q \in Cells(img.width, img.height) :
               \E p \in DOMAIN canvas.data :
                   canvas.data[p][1] = GrayAt(img, q[1], q[2])

\* C10 witness: a rotated, flipped ramp crossing gray level 255 under colormap gray
C10_Witness ==
    /\ settings.colormap = "gray" /\ settings.rotate90 = 3 /\ settings.flipVertical
    /\ img = [width |-> 2, height |-> 2, base |-> 254]
    /\ canvas.data[<< 1, 0 >>] = << 0, 0, 0, 255 >>
    /\ canvas.data[<< 0, 1 >>] = << 255, 255, 255, 255 >>

---------------------------------------------------------------------------
(* SpecApp: the App component.  A handler that awaits a server call is two  *)
(* steps: the part before the await, which leaves the call in `requests`,   *)
(* and the continuation that runs when the promise settles.  The buttons    *)
(* are pressed only while enabled.  Of the settings the five that the       *)
(* preview request carries are edited here, through the mode and view       *)
(* buttons, the Auto button and a CT preset.                                *)

\* most files uploaded
MaxFiles == 1

\* most server calls in flight at once
MaxInflight == 2

\* most frames in a preview answer
MaxPreview == 2

\* the all_frames.length of the preview answers: none, one, several
PreviewLengths == {0, 1, MaxPreview}

Modes == {"volume", "series"}

\* the orientations pressed in this model
Orientations == {"axial", "sagittal"}

\* CT_PRESETS (width / level in Hounsfield units)
CT_PRESETS ==
    [ brain   |-> [width |-> 80, level |-> 40],
      abdomen |-> [width |-> 340, level |-> 40],
      lung    |-> [width |-> 1500, level |-> -600],
      bone    |-> [width |-> 2000, level |-> 300] ]

\* the presets pressed in this model
PresetsPressed == {"brain"}

InitApp ==
    /\ settings = InitialSettings
    /\ files = 0
    /\ status = "idle"
    /\ error = NULL
    /\ result = NULL
    /\ gifUrl = NULL
    /\ previewData = NULL
    /\ currentSlice = 0
    /\ isPlaying = FALSE
    /\ requests = EmptyBag
    /\ frames = 0
    /\ filteredIndices = <<>>
    /\ drawnFrame = -1
    /\ toggles = 0
    /\ order0 = <<>>
    /\ RenderIdle

Send(r) == requests' = requests (+) SetToBag({r})

Settle(r) == requests' = requests (-) SetToBag({r})

Pending(kind) == {r \in BagToSet(requests) : r.kind = kind}

\* FileUploader onFilesChange = setFiles, disabled while converting
SetFiles ==
    /\ status # "converting"
    /\ \E n \in 0..MaxFiles : files' = n
    /\ UNCHANGED <<settings, status, error, result, gifUrl, previewData, isPlaying,
                   requests, historyVars, renderVars>>
    /\ Render(frames, currentSlice)

EditSettingsReloads(newSettings) ==
    /\ status # "converting"
    /\ settings' = newSettings
    /\ status' = "loading_preview"
    /\ previewData' = NULL
    /\ isPlaying' = FALSE
    /\ Send([kind |-> "preview", params |-> PreviewParams(newSettings)])
    /\ UNCHANGED <<files, error, result, gifUrl, historyVars, renderVars>>
    /\ Render(frames, 0)

\* ConversionOptions onSettingsChange = setSettings, disabled while converting
EditSettings(newSettings) ==
    /\ status # "converting"
    /\ Rerender(newSettings, frames, currentSlice)
    /\ UNCHANGED historyVars

\* updateSetting(key, value): onSettingsChange({ ...settings, [key]: value })
UpdateSetting(key, value) == EditSettings([settings EXCEPT ![key] = value])

\* 3D Vol / 2D Seq buttons: updateSetting('mode', ..)
SetMode == \E m \in Modes : EditSettings([settings EXCEPT !.mode = m])

\* View buttons: updateSetting('orientation', o), disabled in series mode
SetOrientation ==
    /\ settings.mode # "series"
    /\ \E o \in Orientations : EditSettings([settings EXCEPT !.orientation = o])

\* Auto button
SelectAutoWindow ==
    EditSettings([settings EXCEPT !.windowMode = "auto", !.windowLevel = 50, !.windowWidth = 98])

\* applyPreset
ApplyPreset ==
    \E p \in PresetsPressed :
        EditSettings([settings EXCEPT !.windowMode = "manual",
                                      !.windowLevel = CT_PRESETS[p].level,
                                      !.windowWidth = CT_PRESETS[p].width])

\* handleLoadPreview up to the await; the Load Preview button is disabled
\* while converting or loading a preview and without files
HandleLoadPreview ==
    /\ status \notin {"converting", "loading_preview"}
    /\ files > 0
    /\ BagCardinality(requests) < MaxInflight
    /\ status' = "loading_preview"
    /\ error' = NULL
    /\ previewData' = NULL
    /\ isPlaying' = FALSE
    /\ result' = NULL
    /\ gifUrl' = NULL
    /\ Send([kind |-> "preview", params |-> PreviewParams(settings)])
    /\ UNCHANGED <<settings, files, historyVars, renderVars>>
    /\ Render(frames, 0)

\* handleLoadPreview after the await: the server answers with the frames
\* rendered for the parameters it was sent
PreviewResolved ==
    \E r \in Pending("preview"), n \in PreviewLengths :
        /\ Settle(r)
        /\ previewData' = [requested |-> r.params]
        /\ status' = "previewing"
        /\ UNCHANGED <<settings, files, error, result, gifUrl, isPlaying,
                       historyVars, renderVars>>
        /\ Render(n, 0)

\* handleLoadPreview, catch branch
PreviewRejected ==
    \E r \in Pending("preview") :
        /\ Settle(r)
        /\ status' = "error"
        /\ error' = [message |-> "Failed to load preview"]
        /\ UNCHANGED <<settings, files, result, gifUrl, previewData, isPlaying,
                       historyVars, renderVars>>
        /\ Render(frames, currentSlice)

\* handleConvert up to the await; same disabled condition as Load Preview
HandleConvert ==
    /\ status \notin {"converting", "loading_preview"}
    /\ files > 0
    /\ BagCardinality(requests) < MaxInflight
    /\ status' = "converting"
    /\ error' = NULL
    /\ result' = NULL
    /\ gifUrl' = NULL
    /\ Send([kind |-> "convert"])
    /\ UNCHANGED <<settings, files, previewData, isPlaying, historyVars, renderVars>>
    /\ Render(frames, currentSlice)

\* handleConvert after the await
ConvertResolved ==
    \E r \in Pending("convert") :
        /\ Settle(r)
        /\ result' = [task_id |-> "task"]
        /\ gifUrl' = [url |-> "/api/download/task"]
        /\ status' = "done"
        /\ UNCHANGED <<settings, files, error, previewData, isPlaying,
                       historyVars, renderVars>>
        /\ Render(frames, currentSlice)

\* handleConvert, catch branch
ConvertRejected ==
    \E r \in Pending("convert") :
        /\ Settle(r)
        /\ status' = "error"
        /\ error' = [message |-> "Conversion failed"]
        /\ UNCHANGED <<settings, files, result, gifUrl, previewData, isPlaying,
                       historyVars, renderVars>>
        /\ Render(frames, currentSlice)

ClearStateKeepsError ==
    /\ result' = NULL
    /\ gifUrl' = NULL
    /\ previewData' = NULL
    /\ isPlaying' = FALSE
    /\ status' = "idle"
    /\ UNCHANGED <<error, settings, historyVars, renderVars>>
    /\ Render(frames, 0)

\* the state updates that end handleClear and handleClearAll, and the render pass
ClearState ==
    /\ result' = NULL
    /\ gifUrl' = NULL
    /\ previewData' = NULL
    /\ isPlaying' = FALSE
    /\ status' = "idle"
    /\ error' = NULL
    /\ UNCHANGED <<settings, historyVars, renderVars>>
    /\ Render(frames, 0)

\* handleClear; the Clear button is disabled without a gifUrl and while
\* converting.  With a task id it awaits clearTask first.
HandleClear ==
    /\ gifUrl # NULL
    /\ status # "converting"
    /\ UNCHANGED files
    /\ IF result # NULL
       THEN /\ BagCardinality(requests) < MaxInflight
            /\ Send([kind |-> "clearTask"])
            /\ UNCHANGED <<settings, result, gifUrl, previewData, isPlaying, status, error,
                           previewVars, renderVars, playVars, preloadVars>>
       ELSE /\ ClearState
            /\ UNCHANGED requests

\* handleClear after the await; a rejection is caught and ignored
ClearTaskSettled ==
    \E r \in Pending("clearTask") :
        /\ Settle(r)
        /\ UNCHANGED files
        /\ ClearState

\* handleClearAll up to the await; the Clear All button is disabled while converting
HandleClearAll ==
    /\ status # "converting"
    /\ BagCardinality(requests) < MaxInflight
    /\ Send([kind |-> "clearAll"])
    /\ UNCHANGED <<settings, files, status, error, result, gifUrl, previewData, isPlaying,
                   previewVars, renderVars, playVars, preloadVars>>

\* handleClearAll after the await; a rejection is caught and ignored
ClearAllSettled ==
    \E r \in Pending("clearAll") :
        /\ Settle(r)
        /\ files' = 0
        /\ ClearState

NextApp ==
    \/ SetFiles
    \/ SetMode
    \/ SetOrientation
    \/ SelectAutoWindow
    \/ ApplyPreset
    \/ HandleLoadPreview
    \/ PreviewResolved
    \/ PreviewRejected
    \/ HandleConvert
    \/ ConvertResolved
    \/ ConvertRejected
    \/ HandleClear
    \/ ClearTaskSettled
    \/ HandleClearAll
    \/ ClearAllSettled

SpecApp == InitApp /\ [][NextApp]_vars

\* C1: whenever the interactive preview is displayed, the mode, orientation,
\* windowMode, windowWidth and windowLevel its frames were requested with are
\* the current settings, those a Convert request would send.
C1_PreviewMatchesSettings ==
    InteractivePreviewShown => previewData.requested = PreviewParams(settings)


\* the state every cleanup ends in
Cleaned ==
    /\ status = "idle"
    /\ error = NULL
    /\ result = NULL
    /\ gifUrl = NULL
    /\ previewData = NULL

\* a cleanup handler runs to its end: handleClear without a task id, or the
\* continuation of handleClear or handleClearAll after the server call settled
ClearFinishes ==
    \/ HandleClear /\ result = NULL
    \/ ClearTaskSettled
    \/ ClearAllSettled

\* C19: every cleanup ends with status idle and error, result, gifUrl and
\* previewData null, in whatever state and with whatever requests in flight
\* it runs; and a cleanup that ends in a state an earlier cleanup left
\* (for Clear All: with the files removed) changes nothing of the App state.
C19_CleanupIsIdempotent ==
    /\ [][~ClearFinishes \/ Cleaned']_vars
    /\ [][\/ UNCHANGED <<files, status, error, result, gifUrl, previewData,
                         currentSlice, isPlaying>>
          \/ ~(Cleaned /\ ~isPlaying /\ currentSlice = 0 /\ ClearFinishes
                 /\ (files = 0 \/ ~ClearAllSettled))]_vars

\* C19 witness: a Clear All has finished while a conversion started after it
\* was pressed is still in flight, and Clear All has been pressed again
C19_Witness ==
    /\ Cleaned /\ files = 0
    /\ Pending("convert") # {}
    /\ Pending("clearAll") # {}

\* the catch branch of handleLoadPreview or handleConvert runs
RequestRejected == PreviewRejected \/ ConvertRejected

\* C20: when a preview or conversion request rejects, status becomes error
\* with an error message, the rejection changes neither files nor settings,
\* result and gifUrl are null, and after a rejected preview previewData is null.
C20_FailureLeavesNoResult ==
    [][RequestRejected =>
          /\ status' = "error" /\ error' # NULL
          /\ files' = files /\ settings' = settings
          /\ result' = NULL /\ gifUrl' = NULL
          /\ (PreviewRejected => previewData' = NULL)]_vars

\* C23: gifUrl is non-null exactly when result is non-null, and exactly
\* when status is done.
C23_GifUrlIffDone ==
    /\ (gifUrl # NULL) <=> (result # NULL)
    /\ (gifUrl # NULL) <=> (status = "done")

\* the preview and conversion requests in flight
Outstanding == Pending("preview") \cup Pending("convert")

\* C24: at most one preview or conversion request is in flight.
C24_OneRequestOutstanding ==
    /\ Cardinality(Outstanding) <= 1
    /\ \A r \in Outstanding : CopiesIn(r, requests) = 1

\* C25: the error message is non-null exactly when status is error.
C25_ErrorIffStatusError ==
    (error # NULL) <=> (status = "error")

---------------------------------------------------------------------------
(* SpecClearAll: the App of SpecApp, with a user who only ever adds files   *)
(* through the uploader.  Files then become empty again only when           *)
(* handleClearAll completes, and they stay empty exactly until the next     *)
(* upload, which has to precede a new Load Preview or Convert.              *)

\* FileUploader onFilesChange = setFiles with a non-empty selection
UploadFiles ==
    /\ status # "converting"
    /\ \E n \in 1..MaxFiles : files' = n
    /\ UNCHANGED <<settings, status, error, result, gifUrl, previewData, isPlaying,
                   requests, historyVars, renderVars>>
    /\ Render(frames, currentSlice)

NextClearAll ==
    \/ UploadFiles
    \/ SetMode
    \/ SetOrientation
    \/ SelectAutoWindow
    \/ ApplyPreset
    \/ HandleLoadPreview
    \/ PreviewResolved
    \/ PreviewRejected
    \/ HandleConvert
    \/ ConvertResolved
    \/ ConvertRejected
    \/ HandleClear
    \/ ClearTaskSettled
    \/ HandleClearAll
    \/ ClearAllSettled

SpecClearAll == InitApp /\ [][NextClearAll]_vars

\* C21: from the completion of handleClearAll until the user uploads files
\* for a new Load Preview or Convert (that is, while files is empty),
\* previewData, result and gifUrl are null, whatever requests were in flight
\* when Clear All was pressed.
C21_ClearAllStaysCleared ==
    files = 0 => previewData = NULL /\ result = NULL /\ gifUrl = NULL

---------------------------------------------------------------------------
(* SpecPlayback: the App with a preview that plays.  The App handlers of    *)
(* SpecApp without the server-side settings, the Play/Pause button, the     *)
(* browser running the animation-frame callbacks, and the navigation, fps,  *)
(* flip and slice-range controls used during playback.                      *)

\* the latest time explored, in milliseconds
MaxClock == 150

\* time between two animation frames: a prompt one and a late one
TickDelays == {50, 150}

\* positions the fps slider (min 1, max 30) is moved to
FpsStops == {10, 20}

\* positions the start slider is moved to during playback
PlaybackStartStops == {0, 50}

\* Play/Pause button: handlePlayPauseToggle, setIsPlaying(prev => !prev)
HandlePlayPauseToggle ==
    /\ frames > 0
    /\ isPlaying' = ~isPlaying
    /\ UNCHANGED <<settings, files, status, error, result, gifUrl, previewData, requests,
                   historyVars, renderVars>>
    /\ Render(frames, currentSlice)

\* the browser runs a pending animation-frame callback
Tick ==
    \E c \in rafPending, d \in TickDelays :
        /\ clock + d <= MaxClock
        /\ Animate(c, clock + d)

\* fps slider onChange: updateSetting('fps', value)
SelectFps == \E f \in FpsStops : UpdateSetting("fps", f)

\* L/R button: updateSetting('flipHorizontal', !settings.flipHorizontal),
\* with the render pass of the whole preview
FlipHorizontalClicked == UpdateSetting("flipHorizontal", ~settings.flipHorizontal)

\* start slider onChange during playback: updateSliceRange(value, settings.sliceEnd)
DragSliceStart ==
    /\ status # "converting"
    /\ \E v \in PlaybackStartStops : RangeEdited(SliceRangeAfter(v, settings.sliceEnd, settings))

NextPlayback ==
    \/ SetFiles
    \/ HandleLoadPreview
    \/ PreviewResolved
    \/ PreviewRejected
    \/ HandleConvert
    \/ ConvertResolved
    \/ ConvertRejected
    \/ HandleClear
    \/ ClearTaskSettled
    \/ HandleClearAll
    \/ ClearAllSettled
    \/ HandlePlayPauseToggle
    \/ Tick
    \/ SelectFps
    \/ FlipHorizontalClicked
    \/ DragSliceStart
    \/ StepBackward
    \/ StepForward
    \/ SlideToFrame

SpecPlayback == InitApp /\ [][NextPlayback]_vars

\* C14: at most one animation-frame callback is pending, and animationRef
\* refers to it.
C14_SingleTicker ==
    /\ Cardinality(rafPending) <= 1
    /\ \A c \in rafPending : c.id = animationRef

\* the preview is rendered and its loop runs: playing, images loaded, frames selected
Playing == InteractivePreviewShown /\ LoopRuns(isPlaying, frames, Len(filteredIndices))

\* C15: whenever playback is stopped (paused, no frames, or InteractivePreview
\* not rendered after Load Preview, Convert, Clear or Clear All) no
\* animation-frame callback is pending, so that no tick can advance
\* currentSlice before playback starts again.
C15_StoppedLeavesNoCallback ==
    ~Playing => rafPending = {} /\ animationRef = 0

\* C13: a tick advances the current frame only if at least 1000/fps ms have
\* passed since the last advance or (re)start of the loop, and then by
\* exactly one frame, to (current + 1) mod filteredFrameCount, however late
\* the tick is; any other tick leaves the current frame alone.
C13_TickAdvancesOneFrame ==
    [][clock' # clock =>
          currentSlice' = IF (clock' - lastFrameTimeRef) * settings.fps >= 1000
                          THEN (currentSlice + 1) % Len(filteredIndices)
                          ELSE currentSlice]_vars

\* C13 witness: at 10 fps a tick 150 ms after the start of playback has moved
\* the preview from its first frame to its second
C13_Witness ==
    /\ Playing /\ settings.fps = 10 /\ Len(filteredIndices) = 2
    /\ clock = 150 /\ lastFrameTimeRef = 150 /\ currentSlice = 1

\* C14 witness: playback has gone on over several ticks at 20 fps, the
\* range has been narrowed to one frame meanwhile, and one callback is pending
C14_Witness ==
    /\ Playing /\ settings.fps = 20 /\ settings.sliceStart = 50 /\ Len(filteredIndices) = 1
    /\ clock = 150 /\ lastFrameTimeRef = 150 /\ currentSlice = 0
    /\ Cardinality(rafPending) = 1 /\ animationRef # 0

\* C15 witness: a preview that was playing has been unmounted by Convert:
\* isPlaying is still set, and nothing is pending
C15_Witness ==
    /\ status = "converting" /\ isPlaying /\ clock > 0 /\ previewData # NULL
    /\ rafPending = {}

---------------------------------------------------------------------------
(* SpecClient: a preview is loaded and the user works on it with every      *)
(* client-side control: flips, rotation, reversal, colormap, slice range,   *)
(* fps, frame navigation and playback.                                      *)

\* the colormaps picked in this specification
ColormapsPicked == {"gray", "hot"}

\* positions the end slider is moved to in this specification
ClientEndStops == {50, 100}

\* U/D button
FlipVerticalClicked == UpdateSetting("flipVertical", ~settings.flipVertical)

\* Rot button: rotateClockwise
RotateClicked == UpdateSetting("rotate90", NewRotation(settings.rotate90))

\* Rev button
ReverseClicked == UpdateSetting("reverseSlices", ~settings.reverseSlices)

\* colormap select
ColormapPicked == \E c \in ColormapsPicked : UpdateSetting("colormap", c)

\* end slider onChange: updateSliceRange(settings.sliceStart, value)
DragSliceEnd ==
    /\ status # "converting"
    /\ \E v \in ClientEndStops : RangeEdited(SliceRangeAfter(settings.sliceStart, v, settings))

\* the edits of the client-side settings
ClientEdit ==
    \/ FlipHorizontalClicked
    \/ FlipVerticalClicked
    \/ RotateClicked
    \/ ReverseClicked
    \/ ColormapPicked
    \/ SelectFps
    \/ DragSliceStart
    \/ DragSliceEnd

\* frame navigation and Play/Pause
ClientNavigation ==
    \/ StepBackward
    \/ StepForward
    \/ SlideToFrame
    \/ HandlePlayPauseToggle

\* the App after the user has dropped a file on it
InitClient ==
    /\ settings = InitialSettings
    /\ files = 1
    /\ status = "idle"
    /\ error = NULL
    /\ result = NULL
    /\ gifUrl = NULL
    /\ previewData = NULL
    /\ currentSlice = 0
    /\ isPlaying = FALSE
    /\ requests = EmptyBag
    /\ frames = 0
    /\ filteredIndices = <<>>
    /\ drawnFrame = -1
    /\ toggles = 0
    /\ order0 = <<>>
    /\ RenderIdle

NextClient ==
    \/ HandleLoadPreview
    \/ PreviewResolved
    \/ ClientEdit
    \/ ClientNavigation
    \/ Tick

SpecClient == InitClient /\ [][NextClient]_vars

\* the form fields getPreviewFrames appends besides the files
PreviewRequestFields ==
    {"mode", "orientation", "windowMode", "windowWidth", "windowLevel", "previewSize"}

\* C12: once a preview is loaded, no edit of flipHorizontal, flipVertical,
\* rotate90, reverseSlices, colormap, sliceStart, sliceEnd or fps and no
\* navigation or play/pause action issues a server request or changes status
\* or previewData; and a preview request carries mode, orientation, the
\* window settings and the preview size only.
C12_ClientEditsStayLocal ==
    /\ [][\/ UNCHANGED <<requests, status, previewData>>
          \/ ~(previewData # NULL /\ (ClientEdit \/ ClientNavigation))]_vars
    /\ [](\A r \in BagToSet(requests) :
              r.kind = "preview" => DOMAIN r.params = PreviewRequestFields)

\* C12 witness: a loaded preview has been flipped, rotated, reversed,
\* recoloured, narrowed and set playing, and no request is in flight
C12_Witness ==
    /\ status = "previewing" /\ previewData # NULL /\ requests = EmptyBag
    /\ settings.flipHorizontal /\ settings.flipVertical /\ settings.rotate90 = 3
    /\ settings.reverseSlices /\ settings.colormap = "hot" /\ settings.fps = 20
    /\ settings.sliceStart = 50 /\ settings.sliceEnd = 100
    /\ isPlaying /\ currentSlice = 0 /\ clock = 100


---------------------------------------------------------------------------
(* SpecColormap: a loaded, paused preview showing two neighbouring gray     *)
(* levels side by side while the user picks colormaps and mirrors the       *)
(* image.  Every pair of neighbouring table indices is covered.             *)

\* the images explored: pixel (0, 0) has gray level i, pixel (1, 0) has i + 1
TablePairs == {[width |-> 2, height |-> 1, base |-> i] : i \in 0..254}

InitColormap ==
    \E image \in TablePairs :
        /\ settings = InitialSettings
        /\ img = image
        /\ canvas = DrawFrame(image, InitialSettings)
        /\ presses = 0
        /\ rotate0 = 0
        /\ canvas0 = DrawFrame(image, InitialSettings)
        /\ AppPreviewing
        /\ PlayIdle
        /\ PreloadIdle
        /\ frames = 1
        /\ currentSlice = 0
        /\ filteredIndices = <<0>>
        /\ drawnFrame = 0
        /\ toggles = 0
        /\ order0 = <<0>>

NextColormap ==
    \/ SelectColormap
    \/ ToggleFlipHorizontal

SpecColormap == InitColormap /\ [][NextColormap]_vars

\* the colour applyColormap stores for gray level v under the selected
\* colormap: the table entry, each channel clamped by the Uint8ClampedArray
Painted(v) ==
    LET e == ColormapEntry(settings.colormap, v)
    IN  << ClampByte(e[1]), ClampByte(e[2]), ClampByte(e[3]), 255 >>

\* C16: gray has no table; each other colormap has 256 entries, and every
\* gray level of the image is inside the selected table and is painted with its
\* table entry, a triple: the index is never outside the table, which is the
\* only case in which lut[gray] is undefined and the gray fallback is taken
C16_TablesCoverEveryGray ==
    /\ ColormapLength("gray") = 0
    /\ \A c \in Colormaps \ {"gray"} : ColormapLength(c) = 256
    /\ settings.colormap # "gray" =>
           \A q \in Cells(img.width, img.height) :
               LET v == GrayAt(img, q[1], q[2])
               IN  /\ v \in 0..(ColormapLength(settings.colormap) - 1)
                   /\ Len(ColormapEntry(settings.colormap, v)) = 3
                   /\ \E p \in DOMAIN canvas.data : canvas.data[p] = Painted(v)

\* C16 witness: the last table index, 255, painted through viridis
C16_Witness ==
    /\ settings.colormap = "viridis"
    /\ img.base = 254
    /\ \E p \in DOMAIN canvas.data :
           canvas.data[p] = Painted(255) /\ canvas.data[p] # << 255, 255, 255, 255 >>

\* the table entries of the two gray levels shown, under the selected colormap
LowerEntry == ColormapEntry(settings.colormap, GrayAt(img, 0, 0))

UpperEntry == ColormapEntry(settings.colormap, GrayAt(img, 1, 0))

Distance(a, b) == IF a >= b THEN a - b ELSE b - a

\* brightness R+G+B of a table entry
Brightness(e) == e[1] + e[2] + e[3]

\* C17: under every colormap with a table, the entries of neighbouring indices
\* i and i+1 differ by at most 5 levels in each channel
C17_TableIsContinuous ==
    settings.colormap # "gray" =>
        \A ch \in 1..3 : Distance(LowerEntry[ch], UpperEntry[ch]) <= 5

\* C18: under every colormap with a table, the entry of index i+1 is at least
\* as bright as the entry of index i
C18_BrightnessIsMonotonic ==
    settings.colormap # "gray" => Brightness(UpperEntry) >= Brightness(LowerEntry)

\* C30: under every colormap with a table, each channel of the table entries
\* of the gray levels shown is in 0..255, and the canvas holds the entry as
\* the table has it.
C30_EntriesAreBytes ==
    settings.colormap # "gray" =>
        /\ \A ch \in 1..3 : LowerEntry[ch] \in 0..255 /\ UpperEntry[ch] \in 0..255
        /\ \E p \in DOMAIN canvas.data :
               canvas.data[p] = << LowerEntry[1], LowerEntry[2], LowerEntry[3], 255 >>

---------------------------------------------------------------------------
(* SpecLoop: a loaded preview played for as long as one likes.  Only        *)
(* differences of times enter the loop (timestamp - lastFrameTimeRef), so    *)
(* a tick is taken with the time counted from the last noted time; the      *)
(* clock then stays below one frame interval plus one tick delay.  The      *)
(* browser keeps running animation-frame callbacks: weak fairness of the    *)
(* tick.                                                                    *)

\* most frames of the preview played
MaxLoopFrames == 3

\* the preview has just been loaded with 1..MaxLoopFrames frames
InitLoop ==
    \E total \in 1..MaxLoopFrames :
        /\ settings = InitialSettings
        /\ frames = total
        /\ currentSlice = 0
        /\ filteredIndices = FilteredIndices(total, 0, Percent)
        /\ drawnFrame = DrawnAfter(0, FALSE, FilteredIndices(total, 0, Percent), -1)
        /\ toggles = 0
        /\ order0 = DisplayOrder(FALSE, FilteredIndices(total, 0, Percent))
        /\ AppPreviewing
        /\ RenderIdle

\* the browser runs a pending animation-frame callback, d ms after the last one
TickLoop ==
    \E c \in rafPending, d \in TickDelays :
        AnimateOn([Play EXCEPT !.last = 0], c, clock - lastFrameTimeRef + d)

NextLoop ==
    \/ HandlePlayPauseToggle
    \/ TickLoop
    \/ SelectFps
    \/ ReverseClicked
    \/ DragSliceStart

SpecLoop == InitLoop /\ [][NextLoop]_vars /\ WF_vars(TickLoop)

\* C22: if from some time on the preview is playing with more than k frames
\* selected and no step but ticks is taken, display index k is shown again
\* and again; and while playing without a settings edit the display index
\* changes only from k to (k + 1) mod filteredFrameCount.
C22_PlaybackLoops ==
    /\ \A k \in 0..(MaxLoopFrames - 1) :
           (<>[][TickLoop]_vars /\ <>[](Playing /\ Len(filteredIndices) > k))
               => []<>(currentSlice = k /\ drawnFrame = GetEffectiveIndex(k, settings.reverseSlices, filteredIndices))
    /\ [][(Playing /\ Playing' /\ settings' = settings /\ currentSlice' # currentSlice)
             => currentSlice' = (currentSlice + 1) % Len(filteredIndices)]_vars

\* C22 witness: all three frames are selected and playback has reached the last
C22_Witness ==
    /\ Playing /\ Len(filteredIndices) = MaxLoopFrames
    /\ currentSlice = MaxLoopFrames - 1
    /\ lastFrameTimeRef = clock /\ clock > 0

---------------------------------------------------------------------------
(* SpecNavigate: the loaded preview of SpecLoop under every control that    *)
(* moves the frame shown: the range sliders, the step buttons, the frame    *)
(* slider, Play/Pause and the ticks of the animation loop.                  *)

NextNavigate ==
    \/ UpdateSliceStart
    \/ UpdateSliceEnd
    \/ StepBackward
    \/ StepForward
    \/ SlideToFrame
    \/ HandlePlayPauseToggle
    \/ TickLoop

SpecNavigate == InitLoop /\ [][NextNavigate]_vars

\* C26: while the preview has frames, currentSlice is a display index of the
\* selection after every handler and its render pass; Previous and Next move
\* by one and stay at 0 and at filteredFrameCount - 1; a range edit leaves
\* currentSlice alone unless it is no longer below filteredFrameCount, and
\* then sets it to filteredFrameCount - 1.
C26_SliceStaysInRange ==
    /\ [](frames > 0 => currentSlice \in 0..(Len(filteredIndices) - 1))
    /\ [][\/ currentSlice' = currentSlice
          \/ ~StepBackward
          \/ currentSlice > 0 /\ currentSlice' = currentSlice - 1]_vars
    /\ [][\/ currentSlice' = currentSlice
          \/ ~StepForward
          \/ currentSlice < Len(filteredIndices) - 1 /\ currentSlice' = currentSlice + 1]_vars
    /\ [][\/ currentSlice < Len(filteredIndices') /\ currentSlice' = currentSlice
          \/ frames = 0
          \/ ~(UpdateSliceStart \/ UpdateSliceEnd)
          \/ currentSlice >= Len(filteredIndices') /\ currentSlice' = Len(filteredIndices') - 1]_vars

\* C26 witness: during playback the range has been narrowed to fewer frames
\* than the slice shown before, and the last frame of the selection is shown
C26_Witness ==
    /\ frames = MaxLoopFrames /\ isPlaying /\ clock > 0
    /\ settings.sliceStart = 0 /\ settings.sliceEnd < Percent
    /\ Len(filteredIndices) = MaxLoopFrames - 1 /\ currentSlice = MaxLoopFrames - 2

---------------------------------------------------------------------------
(* SpecSliceRange: the two slice-range sliders moved to any of their        *)
(* positions, in any order, over a loaded preview.                          *)

\* the values of the start slider: min 0, max 95
SliderStartValues == 0..(Percent - MinGap)

\* the values of the end slider: min 5, max 100
SliderEndValues == MinGap..Percent

\* start slider onChange: updateSliceRange(value, settings.sliceEnd)
MoveStartSlider ==
    /\ status # "converting"
    /\ \E v \in SliderStartValues : RangeEdited(SliceRangeAfter(v, settings.sliceEnd, settings))

\* end slider onChange: updateSliceRange(settings.sliceStart, value)
MoveEndSlider ==
    /\ status # "converting"
    /\ \E v \in SliderEndValues : RangeEdited(SliceRangeAfter(settings.sliceStart, v, settings))

NextSliceRange ==
    \/ MoveStartSlider
    \/ MoveEndSlider

SpecSliceRange == InitLoop /\ [][NextSliceRange]_vars

\* C28: after any sequence of moves of the two sliders from (0, 100),
\* 0 <= sliceStart <= 95, 5 <= sliceEnd <= 100 and sliceEnd - sliceStart >= 5.
C28_SliceRangeKeepsGap ==
    /\ settings.sliceStart \in 0..95
    /\ settings.sliceEnd \in 5..100
    /\ settings.sliceEnd - settings.sliceStart >= 5

\* C28 witness: the end slider was pulled down onto the start slider in
\* the middle of the range; the end stopped 5 above the start
C28_Witness ==
    /\ settings.sliceStart = 47 /\ settings.sliceEnd = 52
    /\ filteredIndices = <<1>>

---------------------------------------------------------------------------
(* SpecPreload: the preload effect of a mounted, paused InteractivePreview. *)
(* Each run of the effect creates one Image per frame, with onload and      *)
(* onerror handlers that share the run's counter `loaded` and its array     *)
(* `images`.  The browser settles every image once, by load or by error,    *)
(* at any later time, also after the frames prop has been replaced.         *)
(* A run is [total, loaded, live, waiting]: frames.length of its closure,   *)
(* its counter, whether its handlers are still attached, and the images     *)
(* that have not settled.  loadedImages names the run whose array it is.    *)

\* most images of a frames array
MaxImages == 2

\* most runs of the preload effect
MaxRuns == 3

CleanupPreloadKeepsHandlers(runs) == runs

\* the cleanup of the last run: img.onload = null; img.onerror = null
CleanupPreload(runs) ==
    IF runs = <<>> THEN runs ELSE [runs EXCEPT ![Len(runs)].live = FALSE]

\* the effect body for a frames array of length n
StartPreload(n, runs) ==
    IF n = 0 THEN runs
    ELSE Append(runs, [total |-> n, loaded |-> 0, live |-> TRUE, waiting |-> 1..n])

\* setLoadedImages([]) of the effect body when frames is empty
LoadedAfterStart(n, loaded) == IF n = 0 THEN NoImages ELSE loaded

\* drawFrame(slice) with the loadedImages of the render: it returns early
\* without images, without selection, and when loadedImages has no image at
\* the effective index
DrawnWith(loaded, slice, indices, before) ==
    LET effectiveIdx == GetEffectiveIndex(slice, settings.reverseSlices, indices)
    IN  IF loaded.length = 0 \/ indices = <<>> \/ effectiveIdx >= loaded.length
        THEN before
        ELSE effectiveIdx

\* InteractivePreview mounts with a frames array of 0..MaxImages images
InitPreload ==
    \E n \in 0..MaxImages :
        /\ settings = InitialSettings
        /\ frames = n
        /\ currentSlice = 0
        /\ filteredIndices = FilteredIndices(n, 0, Percent)
        /\ drawnFrame = -1
        /\ toggles = 0
        /\ order0 = <<>>
        /\ AppPreviewing
        /\ img = [width |-> 1, height |-> 1, base |-> 0]
        /\ canvas = NULL
        /\ presses = 0
        /\ rotate0 = 0
        /\ canvas0 = NULL
        /\ PlayIdle
        /\ loadedImages = NoImages
        /\ preloads = StartPreload(n, <<>>)

\* the frames prop is replaced by another array: memo, clamp effect, cleanup
\* of the preload effect and its next run, draw effect
FramesChange ==
    \E n \in 0..MaxImages :
        LET indices == FilteredIndices(n, settings.sliceStart, settings.sliceEnd)
            slice   == ClampSlice(currentSlice, Len(indices))
            loaded  == LoadedAfterStart(n, loadedImages)
        IN  /\ Len(preloads) < MaxRuns
            /\ frames' = n
            /\ filteredIndices' = indices
            /\ currentSlice' = slice
            /\ preloads' = StartPreload(n, CleanupPreload(preloads))
            /\ loadedImages' = loaded
            /\ drawnFrame' = DrawnWith(loaded, slice, indices, drawnFrame)
            /\ UNCHANGED <<settings, appVars, historyVars, renderVars, playVars>>

\* an image settles: img.onload or img.onerror, if still attached, counts it
\* and on the last one calls setLoadedImages(images); then the draw effects
ImageSettles ==
    \E r \in 1..Len(preloads) :
        \E i \in preloads[r].waiting :
            LET run    == preloads[r]
                count  == run.loaded + 1
                loaded == IF run.live /\ count = run.total
                          THEN [run |-> r, length |-> run.total]
                          ELSE loadedImages
            IN  /\ preloads' = [preloads EXCEPT ![r].waiting = @ \ {i},
                                               ![r].loaded = IF run.live THEN count ELSE @]
                /\ loadedImages' = loaded
                /\ drawnFrame' = IF loaded = loadedImages THEN drawnFrame
                                 ELSE DrawnWith(loaded, currentSlice, filteredIndices, drawnFrame)
                /\ UNCHANGED <<settings, appVars, frames, filteredIndices, currentSlice,
                               historyVars, renderVars, playVars>>

NextPreload ==
    \/ FramesChange
    \/ ImageSettles

SpecPreload == InitPreload /\ [][NextPreload]_vars

\* the run of the preload effect for the current frames array, 0 if it is empty
CurrentRun == IF frames = 0 THEN 0 ELSE Len(preloads)

\* C29: loadedImages always is the complete image set of one run (or empty);
\* it changes only to the set of the run of the current frames array, and
\* then every image of that array has settled; so no image of a superseded
\* frames array changes it.
C29_PreloadAllOrNothing ==
    /\ [](loadedImages # NoImages =>
              /\ preloads[loadedImages.run].waiting = {}
              /\ preloads[loadedImages.run].total = loadedImages.length)
    /\ [][loadedImages' # loadedImages =>
              /\ loadedImages'.run = CurrentRun'
              /\ loadedImages'.length = frames'
              /\ frames' > 0 => preloads'[CurrentRun'].waiting = {}]_vars

\* C29 witness: the images of a superseded frames array have all settled
\* after it was replaced, and the images of the current array are installed
C29_Witness ==
    /\ Len(preloads) = 2
    /\ preloads[1].total = MaxImages /\ preloads[1].waiting = {} /\ preloads[1].loaded = 1
    /\ loadedImages = [run |-> 2, length |-> MaxImages]
    /\ frames = MaxImages

=============================================================================
